---- MODULE Spec2Model ----
(***************************************************************************)
(* Model of etl.py: a batch pipeline that reads song records and log       *)
(* events, derives the tables songs, artists, users, time and songplays    *)
(* and writes each of them, in overwrite mode, below an output root.       *)
(*                                                                         *)
(* Conventions                                                             *)
(*  - A dataframe is a sequence of rows; a row is a record.  No operation  *)
(*    of the pipeline depends on the order of the rows: dropDuplicates     *)
(*    keeps an engine-chosen row per key (modelled as a free choice) and   *)
(*    a written table is compared as a bag of rows.                        *)
(*  - A written table is a bag: a function from rows to their number of    *)
(*    copies.                                                              *)
(*  - NULL is the SQL null of a string column, NullValue the SQL null of   *)
(*    a column of any other type.                                          *)
(*  - A LongType value is the record [s, ms] with value s*1000 + ms (an    *)
(*    epoch-millisecond value: seconds and milliseconds); an IntegerType   *)
(*    or DoubleType value n is the record [v |-> n]; a timestamp is        *)
(*    [s, us] (seconds, microseconds).                                     *)
(*  - A string used as a location is a sequence of tokens; "/" is the      *)
(*    separator token and string concatenation is sequence concatenation.  *)
(*  - Of the log schema only the columns that some table selects, filters  *)
(*    or joins on are kept: auth, itemInSession, length, method,           *)
(*    registration and status are never read by the pipeline.              *)
(*  - The session time zone is UTC.                                        *)
(***************************************************************************)
EXTENDS Integers, Sequences, FiniteSets

VARIABLES
    pc,           \* position of main / process_song_data / process_log_data
    song_files,   \* the records found at the song source location
    log_files,    \* the records found at the log source location
    output_path,  \* the output root handed to the two process_* functions
    song_df,      \* main's song_df
    log_df,       \* main's log_df
    df,           \* process_log_data's local df
    store,        \* the sink: location -> table written there
    run,          \* number of the current pipeline run
    written,      \* location -> number of the run that last wrote it
    before        \* how the previous run ended and the sink it left

vars == <<pc, song_files, log_files, output_path, song_df, log_df, df, store, run,
          written, before>>

-----------------------------------------------------------------------------
(* Bounds of the model. *)

MaxSongs == 2        \* most song records at the source
MaxLogs == 2         \* most log events at the source
MaxRuns == 2         \* most pipeline runs on one destination
NumPartitions == 2   \* most partitions the engine spreads the joined rows over

-----------------------------------------------------------------------------
(* Generic helpers on sequences and bags. *)

Range(s) == {s[i] : i \in DOMAIN s}

NULL == "NULL"

NullValue == [null |-> TRUE]

\* the null of a column of the given type
NullOf(type) == IF type = "string" THEN NULL ELSE NullValue

\* rows as a bag
SeqToBag(s) == [r \in Range(s) |-> Cardinality({i \in DOMAIN s : s[i] = r})]

SetAsBag(S) == [r \in S |-> 1]

\* the non-decreasing sequences over 1..n of length at most max
SortedSeqs(n, max) ==
    UNION {{s \in [1..l -> 1..n] : \A i \in 1..(l - 1) : s[i] <= s[i + 1]} : l \in 0..max}

\* the inputs of at most max records drawn from the candidate list cands, one
\* representative (in candidate order) for each multiset of records
Inputs(cands, max) ==
    {[i \in DOMAIN s |-> cands[s[i]]] : s \in SortedSeqs(Len(cands), max)}

\* record r without its field f
Drop(r, f) == [g \in DOMAIN r \ {f} |-> r[g]]

-----------------------------------------------------------------------------
(* Schemas and ingestion: create_song_df, create_log_df. *)

song_schema == <<
    [name |-> "artist_id",        type |-> "string",  nullable |-> FALSE],
    [name |-> "artist_latitude",  type |-> "string",  nullable |-> TRUE],
    [name |-> "artist_longitude", type |-> "string",  nullable |-> TRUE],
    [name |-> "artist_location",  type |-> "string",  nullable |-> TRUE],
    [name |-> "artist_name",      type |-> "string",  nullable |-> FALSE],
    [name |-> "song_id",          type |-> "string",  nullable |-> FALSE],
    [name |-> "title",            type |-> "string",  nullable |-> FALSE],
    [name |-> "duration",         type |-> "double",  nullable |-> TRUE],
    [name |-> "year",             type |-> "integer", nullable |-> TRUE] >>

log_schema == <<
    [name |-> "artist",    type |-> "string", nullable |-> FALSE],
    [name |-> "firstName", type |-> "string", nullable |-> TRUE],
    [name |-> "gender",    type |-> "string", nullable |-> TRUE],
    [name |-> "lastName",  type |-> "string", nullable |-> TRUE],
    [name |-> "level",     type |-> "string", nullable |-> TRUE],
    [name |-> "location",  type |-> "string", nullable |-> TRUE],
    [name |-> "page",      type |-> "string", nullable |-> FALSE],
    [name |-> "sessionId", type |-> "long",   nullable |-> TRUE],
    [name |-> "song",      type |-> "string", nullable |-> FALSE],
    [name |-> "ts",        type |-> "long",   nullable |-> FALSE],
    [name |-> "userAgent", type |-> "string", nullable |-> TRUE],
    [name |-> "userId",    type |-> "string", nullable |-> FALSE] >>

Columns(schema) == {schema[i].name : i \in DOMAIN schema}

\* the type of column c of the schema
TypeOf(schema, c) == schema[CHOOSE i \in DOMAIN schema : schema[i].name = c].type

Required(schema) == {schema[i].name : i \in {j \in DOMAIN schema : ~schema[j].nullable}}

\* spark.read.json(files, schema=schema) with no mode option: the reader is
\* permissive.  Every record becomes a row with exactly the schema's columns;
\* a column the record does not carry is null, whatever the nullable flag of
\* its StructField says.  No record is rejected and no error is raised.
ReadJson(files, schema) ==
    [i \in DOMAIN files |->
        [c \in Columns(schema) |->
            IF c \in DOMAIN files[i] THEN files[i][c] ELSE NullOf(TypeOf(schema, c))]]

create_song_df(files) == ReadJson(files, song_schema)

create_log_df(files) == ReadJson(files, log_schema)

-----------------------------------------------------------------------------
(* Relational operators of the dataframe engine. *)

\* df.select(fields)
Select(rows, fields) == [i \in DOMAIN rows |-> [c \in fields |-> rows[i][c]]]

\* SQL equality as a join or filter condition: null equals nothing
SqlEq(a, b) == a # NULL /\ b # NULL /\ a = b

\* variant of DropDuplicates: rows are dropped only when they agree in every column
DropDuplicateRows(rows, key) == {Range(rows)}

\* df.dropDuplicates([key]): every table the engine may deliver.  One row is
\* kept for each value of the key column (nulls form one group); which of the
\* rows that share a key survives is the engine's choice.
DropDuplicates(rows, key) ==
    LET keys == {rows[i][key] : i \in DOMAIN rows}
        picks == {f \in [keys -> Range(rows)] : \A k \in keys : f[k][key] = k}
    IN  {{f[k] : k \in keys} : f \in picks}

\* the row of a join: the columns of both sides (no column name is shared)
Merge(l, r) == [c \in DOMAIN l \cup DOMAIN r |-> IF c \in DOMAIN l THEN l[c] ELSE r[c]]

-----------------------------------------------------------------------------
(* Timestamps and the calendar functions, in UTC. *)

\* what the lambda of get_timestamp raises on a null: None/1000
TypeError == [raised |-> "TypeError"]

\* udf(lambda x: datetime.fromtimestamp(x/1000), TimestampType())
get_timestamp(ts) ==
    IF ts = NullValue THEN TypeError ELSE [s |-> ts.s, us |-> ts.ms * 1000]

\* the civil date of a number of days since 1970-01-01 (proleptic Gregorian)
CivilFromDays(days) ==
    LET z   == days + 719468
        era == z \div 146097
        doe == z - era * 146097
        yoe == (doe - doe \div 1460 + doe \div 36524 - doe \div 146096) \div 365
        doy == doe - (365 * yoe + yoe \div 4 - yoe \div 100)
        mp  == (5 * doy + 2) \div 153
        d   == doy - (153 * mp + 2) \div 5 + 1
        m   == IF mp < 10 THEN mp + 3 ELSE mp - 9
        y   == yoe + era * 400 + (IF m <= 2 THEN 1 ELSE 0)
    IN  [year |-> y, month |-> m, day |-> d]

IsLeap(y) == (y % 4 = 0 /\ y % 100 # 0) \/ y % 400 = 0

\* days since 1970-01-01 of January 1st of year y
DaysOfJan1(y) ==
    LET p == y - 1
    IN  365 * (y - 1970) + (p \div 4 - p \div 100 + p \div 400) - 477

\* ISO weekday of a day number, Monday = 1 .. Sunday = 7
IsoWeekday(days) == ((days + 3) % 7) + 1

\* number of ISO weeks of year y
IsoWeeksIn(y) ==
    LET wd == IsoWeekday(DaysOfJan1(y))
    IN  IF wd = 4 \/ (wd = 3 /\ IsLeap(y)) THEN 53 ELSE 52

hour(t) == (t.s % 86400) \div 3600

dayofmonth(t) == CivilFromDays(t.s \div 86400).day

month(t) == CivilFromDays(t.s \div 86400).month

year(t) == CivilFromDays(t.s \div 86400).year

weekofyear(t) ==
    LET days == t.s \div 86400
        y    == year(t)
        w    == ((days - DaysOfJan1(y) + 1) - IsoWeekday(days) + 10) \div 7
    IN  IF w < 1 THEN IsoWeeksIn(y - 1)
        ELSE IF w > IsoWeeksIn(y) THEN 1
        ELSE w

-----------------------------------------------------------------------------
(* Output locations. *)

\* main: output_path = 's3a://project4-alex'
main_output_path == <<"s3a:", "/", "/", "project4-alex">>

\* str(output_path + 'songs/' + 'songs.parquet') and its four siblings
songs_out_path(root) == root \o <<"songs", "/">> \o <<"songs.parquet">>

artists_out_path(root) == root \o <<"artists", "/">> \o <<"artists.parquet">>

users_out_path(root) == root \o <<"users", "/">> \o <<"users.parquet">>

time_out_path(root) == root \o <<"time", "/">> \o <<"time.parquet">>

songplays_out_path(root) == root \o <<"songplays", "/">> \o <<"songplays.parquet">>

\* the five destinations of a run, in the order the code writes them
OutPaths(root) ==
    << songs_out_path(root), artists_out_path(root), users_out_path(root),
       time_out_path(root), songplays_out_path(root) >>

\* write.parquet(path, mode='overwrite'): the table replaces what is at path
Overwrite(st, path, table) ==
    [p \in DOMAIN st \cup {path} |-> IF p = path THEN table ELSE st[p]]

\* variant of Remove: a failed write takes the whole sink with it
RemoveAll(st, path) == [p \in {} |-> st[p]]

\* the sink without what was at path
Remove(st, path) == [p \in DOMAIN st \ {path} |-> st[p]]

-----------------------------------------------------------------------------
(* The tables of process_song_data. *)

song_fields == {"song_id", "title", "artist_id", "year", "duration"}

\* song_df.select(song_fields).dropDuplicates(['song_id'])
songs_table(sdf) == DropDuplicates(Select(sdf, song_fields), "song_id")

\* select(artist_fields) followed by the three withColumnRenamed
ArtistRow(r) ==
    [artist_id |-> r.artist_id, artist |-> r.artist_name, location |-> r.artist_location,
     latitude |-> r.artist_latitude, longitude |-> r.artist_longitude]

\* ... .dropDuplicates(['artist_id'])
artists_table(sdf) == DropDuplicates([i \in DOMAIN sdf |-> ArtistRow(sdf[i])], "artist_id")

-----------------------------------------------------------------------------
(* The tables of process_log_data. *)

\* log_df.filter(log_df.page == 'NextSong')
IsNextSong(r) == SqlEq(r.page, "NextSong")

\* variant of FilterNextSong: no page filter
FilterNothing(ldf) == ldf

FilterNextSong(ldf) == SelectSeq(ldf, IsNextSong)

user_fields == {"userId", "firstName", "lastName", "gender", "level"}

\* df.select(user_fields).dropDuplicates(['userId'])
users_table(d) == DropDuplicates(Select(d, user_fields), "userId")

\* df.withColumn('timestamp', get_timestamp(df.ts))
WithTimestamp(d) ==
    [i \in DOMAIN d |-> Merge(d[i], [timestamp |-> get_timestamp(d[i].ts)])]

TimeRow(r) ==
    [start_time |-> r.timestamp, hour |-> hour(r.timestamp), day |-> dayofmonth(r.timestamp),
     week |-> weekofyear(r.timestamp), month |-> month(r.timestamp), year |-> year(r.timestamp)]

\* df.select(...).dropDuplicates(['start_time'])
time_table(d) == DropDuplicates([i \in DOMAIN d |-> TimeRow(d[i])], "start_time")

\* variant of JoinCond: the join compares the titles only
JoinCondTitleOnly(l, sg) == SqlEq(sg.title, l.song)

\* (song_df.title == df.song) & (song_df.artist_name == df.artist)
JoinCond(l, sg) == SqlEq(sg.title, l.song) /\ SqlEq(sg.artist_name, l.artist)

\* df.join(song_df, cond): inner join, one row for every pair of a df row and a
\* song_df row that satisfies the condition
Join(d, sdf) ==
    LET m == Len(sdf)
        pairs == [q \in 1..(Len(d) * m) |-> <<((q - 1) \div m) + 1, ((q - 1) % m) + 1>>]
        Hit(pr) == JoinCond(d[pr[1]], sdf[pr[2]])
        hits == SelectSeq(pairs, Hit)
    IN  [q \in DOMAIN hits |-> Merge(d[hits[q][1]], sdf[hits[q][2]])]

\* monotonically_increasing_id() on rows spread over parts partitions: the id
\* is partition * 2^33 + position in the partition, kept as the pair of both
MonotonicId(q, parts) == [partition |-> (q - 1) % parts, offset |-> (q - 1) \div parts]

\* .withColumn('songplay_id', monotonically_increasing_id())
WithSongplayId(d, parts) ==
    [q \in DOMAIN d |-> Merge(d[q], [songplay_id |-> MonotonicId(q, parts)])]

\* variant of SongplayRow: year is the year column of the joined row (the
\* song's), not the year of the timestamp
SongplayRowSongYear(r) ==
    [start_time |-> r.timestamp, userId |-> r.userId, level |-> r.level,
     song_id |-> r.song_id, artist_id |-> r.artist_id, sessionId |-> r.sessionId,
     location |-> r.location, userAgent |-> r.userAgent,
     year |-> r.year.v, month |-> month(r.timestamp)]

\* songplays = df.select(...)
SongplayRow(r) ==
    [start_time |-> r.timestamp, userId |-> r.userId, level |-> r.level,
     song_id |-> r.song_id, artist_id |-> r.artist_id, sessionId |-> r.sessionId,
     location |-> r.location, userAgent |-> r.userAgent,
     year |-> year(r.timestamp), month |-> month(r.timestamp)]

songplays_table(d) == [i \in DOMAIN d |-> SongplayRow(d[i])]

-----------------------------------------------------------------------------
(* The inputs the model draws from. *)

SongRecord(sid, aid, name) ==
    [artist_id |-> aid, artist_latitude |-> NULL, artist_longitude |-> NULL,
     artist_location |-> NULL, artist_name |-> name, song_id |-> sid,
     title |-> "Test", duration |-> [v |-> 200], year |-> [v |-> 2000]]

LogEvent(page, song, uid, late) ==
    [artist |-> "Artist", firstName |-> "F", gender |-> "G", lastName |-> "L",
     level |-> IF late THEN "paid" ELSE "free", location |-> "X", page |-> page,
     sessionId |-> [s |-> 0, ms |-> 1], song |-> song,
     ts |-> IF late THEN [s |-> 1546300800, ms |-> 0] ELSE [s |-> 1541121934, ms |-> 796],
     userAgent |-> "Y", userId |-> uid]

\* song records: two song ids, two artist ids, two spellings of the artist name
SongCandidates ==
    [k \in 1..8 |->
        SongRecord(IF (k - 1) % 2 = 0 THEN "S1" ELSE "S2",
                   IF ((k - 1) \div 2) % 2 = 0 THEN "A1" ELSE "A2",
                   IF ((k - 1) \div 4) % 2 = 0 THEN "Artist" ELSE "artist")]

\* log events: NextSong events of two song titles, two users and two instants
\* (a user is on the free level at the earlier instant and on the paid level at
\* the later), and events of another page, with the title the song records
\* carry, of the same users and instants
LogCandidates ==
    [k \in 1..12 |->
        IF k <= 8
        THEN LogEvent("NextSong",
                      IF (k - 1) % 2 = 0 THEN "Test" ELSE "Other",
                      IF ((k - 1) \div 2) % 2 = 0 THEN "U1" ELSE "U2",
                      ((k - 1) \div 4) % 2 = 1)
        ELSE LogEvent("Home", "Test",
                      IF (k - 1) % 2 = 0 THEN "U1" ELSE "U2",
                      ((k - 1) \div 2) % 2 = 1)]

\* records as they may lie at the source: complete, or lacking a required field
RawSongCandidates ==
    << SongRecord("S1", "A1", "Artist"),
       Drop(SongRecord("S1", "A1", "Artist"), "song_id"),
       Drop(SongRecord("S2", "A1", "Artist"), "title") >>

RawLogCandidates ==
    << LogEvent("NextSong", "Test", "U1", FALSE),
       Drop(LogEvent("NextSong", "Test", "U1", FALSE), "userId"),
       Drop(LogEvent("NextSong", "Test", "U2", TRUE), "page"),
       Drop(LogEvent("NextSong", "Test", "U1", TRUE), "ts") >>

\* the root main passes, and the same root with a trailing separator
OutputRoots == {main_output_path, main_output_path \o <<"/">>}

\* the sources of the runs that are repeated and may fail: song records that
\* share a song_id and differ otherwise, events of one user on two levels, an
\* event of another page
RunSongInputs ==
    { <<SongRecord("S1", "A1", "Artist")>>,
      <<SongRecord("S1", "A1", "Artist"), SongRecord("S1", "A2", "artist")>> }

RunLogInputs ==
    { <<>>,
      <<LogEvent("NextSong", "Test", "U1", FALSE)>>,
      <<LogEvent("NextSong", "Test", "U1", FALSE), LogEvent("NextSong", "Test", "U1", TRUE)>>,
      <<LogEvent("NextSong", "Other", "U1", FALSE), LogEvent("Home", "Test", "U2", FALSE)>>,
      <<Drop(LogEvent("NextSong", "Test", "U1", FALSE), "ts")>> }

-----------------------------------------------------------------------------
(* The state machine. *)

NoTable == <<>>

InitWith(songs, logs, roots) ==
    /\ pc = "create_song_df"
    /\ song_files \in songs
    /\ log_files \in logs
    /\ output_path \in roots
    /\ song_df = <<>>
    /\ log_df = <<>>
    /\ df = <<>>
    /\ store = NoTable
    /\ run = 1
    /\ written = NoTable
    /\ before = [pc |-> "none", store |-> NoTable]

Init == InitWith(Inputs(SongCandidates, MaxSongs), Inputs(LogCandidates, MaxLogs),
                 {main_output_path})

\* main: song_df = create_song_df(spark, song_files)
ReadSongs ==
    /\ pc = "create_song_df"
    /\ song_df' = create_song_df(song_files)
    /\ pc' = "create_log_df"
    /\ UNCHANGED <<song_files, log_files, output_path, log_df, df, store, run, written, before>>

\* main: log_df = create_log_df(spark, log_files)
ReadLogs ==
    /\ pc = "create_log_df"
    /\ log_df' = create_log_df(log_files)
    /\ pc' = "write_songs"
    /\ UNCHANGED <<song_files, log_files, output_path, song_df, df, store, run, written, before>>

\* a completed write.parquet(path, mode='overwrite') of table
Write(path, table) ==
    /\ store' = Overwrite(store, path, table)
    /\ written' = Overwrite(written, path, run)

\* process_song_data: the songs table and its write
WriteSongs ==
    /\ pc = "write_songs"
    /\ \E t \in songs_table(song_df) : Write(songs_out_path(output_path), SetAsBag(t))
    /\ pc' = "write_artists"
    /\ UNCHANGED <<song_files, log_files, output_path, song_df, log_df, df, run, before>>

\* process_song_data: the artists table and its write
WriteArtists ==
    /\ pc = "write_artists"
    /\ \E t \in artists_table(song_df) : Write(artists_out_path(output_path), SetAsBag(t))
    /\ pc' = "write_users"
    /\ UNCHANGED <<song_files, log_files, output_path, song_df, log_df, df, run, before>>

\* process_log_data: the page filter, the users table and its write
WriteUsers ==
    /\ pc = "write_users"
    /\ df' = FilterNextSong(log_df)
    /\ \E t \in users_table(df') : Write(users_out_path(output_path), SetAsBag(t))
    /\ pc' = "write_time"
    /\ UNCHANGED <<song_files, log_files, output_path, song_df, log_df, run, before>>

\* a write.parquet(path, mode='overwrite') that raises: overwrite mode clears
\* the destination before it writes, so the destination either still holds
\* what it held or holds nothing
FailedWrite(path) ==
    \/ UNCHANGED <<store, written>>
    \/ /\ path \in DOMAIN store
       /\ store' = Remove(store, path)
       /\ written' = Remove(written, path)

\* the lambda of get_timestamp raises on some row of d
TimestampRaises(d) == \E i \in DOMAIN d : get_timestamp(d[i].ts) = TypeError

\* process_log_data: the timestamp column, the time table and its write.  The
\* frame is lazy: the lambda of get_timestamp runs when the time table is
\* written.  On a row whose ts is null it raises TypeError, the write raises
\* and, no exception being caught, process_log_data and main end there (the
\* rows of the rebound df are then never produced: df keeps its rows).
WriteTime ==
    /\ pc = "write_time"
    /\ \/ /\ TimestampRaises(df)
          /\ FailedWrite(time_out_path(output_path))
          /\ pc' = "failed"
          /\ df' = df
       \/ /\ ~TimestampRaises(df)
          /\ df' = WithTimestamp(df)
          /\ \E t \in time_table(df') : Write(time_out_path(output_path), SetAsBag(t))
          /\ pc' = "write_songplays"
    /\ UNCHANGED <<song_files, log_files, output_path, song_df, log_df, run, before>>

\* process_log_data: the join, the songplays selection and its write
WriteSongplays ==
    /\ pc = "write_songplays"
    /\ \E parts \in 1..NumPartitions : df' = WithSongplayId(Join(df, song_df), parts)
    /\ Write(songplays_out_path(output_path), SeqToBag(songplays_table(df')))
    /\ pc' = "done"
    /\ UNCHANGED <<song_files, log_files, output_path, song_df, log_df, run, before>>

Next == ReadSongs \/ ReadLogs \/ WriteSongs \/ WriteArtists \/ WriteUsers \/ WriteTime
            \/ WriteSongplays

Spec == Init /\ [][Next]_vars

\* the same pipeline on sources whose records may lack required fields, and
\* on either form of the output root
InitIngest == InitWith(Inputs(RawSongCandidates, MaxSongs), Inputs(RawLogCandidates, MaxLogs),
                       OutputRoots)

SpecIngest == InitIngest /\ [][Next]_vars

\* the position of each write in the order of the code
WriteStage ==
    [write_songs |-> 1, write_artists |-> 2, write_users |-> 3, write_time |-> 4,
     write_songplays |-> 5]

\* a write.parquet raises (a storage failure): the exception is caught nowhere,
\* so process_*_data and main end there.
WriteFails ==
    /\ pc \in DOMAIN WriteStage
    /\ FailedWrite(OutPaths(output_path)[WriteStage[pc]])
    /\ pc' = "failed"
    /\ UNCHANGED <<song_files, log_files, output_path, song_df, log_df, df, run, before>>

\* the script is started again on the same sources and the same destination
Rerun ==
    /\ pc \in {"done", "failed"}
    /\ run < MaxRuns
    /\ before' = [pc |-> pc, store |-> store]
    /\ run' = run + 1
    /\ pc' = "create_song_df"
    /\ song_df' = <<>>
    /\ log_df' = <<>>
    /\ df' = <<>>
    /\ UNCHANGED <<song_files, log_files, output_path, store, written>>

InitRuns == InitWith(RunSongInputs, RunLogInputs, {main_output_path})

\* one step of a run: the script is sequential and blocks on each statement
Step == Next \/ WriteFails

NextRuns == Step \/ Rerun

SpecRuns == InitRuns /\ [][NextRuns]_vars /\ WF_vars(Step)

-----------------------------------------------------------------------------
(* Vocabulary of the properties. *)

\* the k-th destination of the run (1 songs, 2 artists, 3 users, 4 time,
\* 5 songplays), whether it holds a table, the table and its rows
Dest(k) == OutPaths(output_path)[k]

Has(k) == Dest(k) \in DOMAIN store

Tab(k) == store[Dest(k)]

Rows(k) == DOMAIN Tab(k)

\* the timestamp that the epoch-millisecond value ts stands for
Instant(ts) == [s |-> ts.s, us |-> 1000 * ts.ms]

\* the songplays row r carries the columns of the log event e
FromEvent(r, e) ==
    /\ r.start_time = Instant(e.ts)
    /\ r.userId = e.userId
    /\ r.level = e.level
    /\ r.sessionId = e.sessionId
    /\ r.location = e.location
    /\ r.userAgent = e.userAgent

\* two log events agree on the columns that songplays takes from the log
SameColumns(e1, e2) ==
    /\ e1.ts = e2.ts
    /\ e1.userId = e2.userId
    /\ e1.level = e2.level
    /\ e1.sessionId = e2.sessionId
    /\ e1.location = e2.location
    /\ e1.userAgent = e2.userAgent

\* the songplays row r carries the keys of the song record sg
FromSong(r, sg) == r.song_id = sg.song_id /\ r.artist_id = sg.artist_id

\* the (song, artist) of the event e is the (title, artist_name) of the song record sg
Matches(e, sg) == e.song = sg.title /\ e.artist = sg.artist_name

Matched(e) == \E j \in DOMAIN song_df : Matches(e, song_df[j])

\* the sum of the values of f over S
RECURSIVE SumOver(_, _)
SumOver(f, S) == IF S = {} THEN 0
                 ELSE LET x == CHOOSE y \in S : TRUE
                      IN f[x] + SumOver(f, S \ {x})

\* number of songplays rows that carry the columns of the event e
RowsOf(e) == SumOver(Tab(5), {r \in Rows(5) : FromEvent(r, e)})

\* a table holds one row for each value of its key column
OneRowPerKey(k, key) ==
    /\ \A r \in Rows(k) : Tab(k)[r] = 1
    /\ \A r1, r2 \in Rows(k) : r1[key] = r2[key] => r1 = r2

KeysOf(k, key) == {r[key] : r \in Rows(k)}

NextSongEvents == {i \in DOMAIN log_df : log_df[i].page = "NextSong"}

\* some record of files lacks a field its schema requires
Violates(files, schema) ==
    \E i \in DOMAIN files : \E c \in Required(schema) : c \notin DOMAIN files[i]

\* the components of a location: the runs of tokens between separators
RECURSIVE Components(_)
Components(p) ==
    IF \A i \in DOMAIN p : p[i] # "/" THEN <<p>>
    ELSE LET cut == CHOOSE i \in DOMAIN p :
                        p[i] = "/" /\ \A j \in 1..(i - 1) : p[j] # "/"
         IN  <<SubSeq(p, 1, cut - 1)>> \o Components(SubSeq(p, cut + 1, Len(p)))

\* the location p lies inside the directory name of the root
InsideRoot(p, root, name) ==
    LET all == Components(root)
        rc  == IF all[Len(all)] = <<>> THEN SubSeq(all, 1, Len(all) - 1) ELSE all
        pcs == Components(p)
    IN  /\ Len(pcs) > Len(rc) + 1
        /\ SubSeq(pcs, 1, Len(rc)) = rc
        /\ pcs[Len(rc) + 1] = <<name>>

TableDirs == <<"songs", "artists", "users", "time", "songplays">>

-----------------------------------------------------------------------------
(* The claims. *)

\* C1, as stated: when the run is done, every songplays row carries the
\* columns of a log event and the keys of a song record whose (title,
\* artist_name) equals the event's (song, artist), and every log event with no
\* songplays row has no song record with an equal pair.
C1_AsStated ==
    pc = "done" =>
        /\ \A r \in Rows(5) : \E i \in DOMAIN log_df, j \in DOMAIN song_df :
              FromEvent(r, log_df[i]) /\ FromSong(r, song_df[j])
                 /\ Matches(log_df[i], song_df[j])
        /\ \A i \in DOMAIN log_df : RowsOf(log_df[i]) = 0 => ~Matched(log_df[i])

\* C1, amended: as above, the second half for the log events whose page is
\* "NextSong": such an event with no songplays row has no song record with an
\* equal pair (an event of another page is dropped whether or not it matches).
C1_JoinExact ==
    pc = "done" =>
        /\ \A r \in Rows(5) : \E i \in DOMAIN log_df, j \in DOMAIN song_df :
              FromEvent(r, log_df[i]) /\ FromSong(r, song_df[j])
                 /\ Matches(log_df[i], song_df[j])
        /\ \A i \in NextSongEvents : RowsOf(log_df[i]) = 0 => ~Matched(log_df[i])

\* a finished run that kept a matched event and dropped an unmatched NextSong event
C1_Witness ==
    /\ pc = "done"
    /\ Rows(5) # {}
    /\ \E i \in NextSongEvents : RowsOf(log_df[i]) = 0 /\ ~Matched(log_df[i])

\* C2: whatever has been written, every row of users, of time and of songplays
\* carries the columns of a log event whose page is "NextSong".
C2_OnlyNextSong ==
    /\ Has(3) => \A r \in Rows(3) : \E i \in NextSongEvents :
          /\ r.userId = log_df[i].userId
          /\ r.firstName = log_df[i].firstName
          /\ r.lastName = log_df[i].lastName
          /\ r.gender = log_df[i].gender
          /\ r.level = log_df[i].level
    /\ Has(4) => \A r \in Rows(4) : \E i \in NextSongEvents :
          r.start_time = Instant(log_df[i].ts)
    /\ Has(5) => \A r \in Rows(5) : \E i \in NextSongEvents : FromEvent(r, log_df[i])

\* a finished run whose log holds an event of another page, of a user and an
\* instant that no NextSong event has, next to a NextSong event
C2_Witness ==
    /\ pc = "done"
    /\ Rows(3) # {}
    /\ \E i \in DOMAIN log_df :
          /\ log_df[i].page # "NextSong"
          /\ Matched(log_df[i])
          /\ \A k \in NextSongEvents :
                log_df[k].userId # log_df[i].userId /\ log_df[k].ts # log_df[i].ts

\* C3: every written dimension table has one row per natural key, and its keys
\* are exactly the keys of the input: the song_id and artist_id values of the
\* song records, the userId values and the instants of the NextSong events.
C3_KeysUniqueAndComplete ==
    /\ Has(1) => /\ OneRowPerKey(1, "song_id")
                 /\ KeysOf(1, "song_id") = {song_df[i].song_id : i \in DOMAIN song_df}
    /\ Has(2) => /\ OneRowPerKey(2, "artist_id")
                 /\ KeysOf(2, "artist_id") = {song_df[i].artist_id : i \in DOMAIN song_df}
    /\ Has(3) => /\ OneRowPerKey(3, "userId")
                 /\ KeysOf(3, "userId") = {log_df[i].userId : i \in NextSongEvents}
    /\ Has(4) => /\ OneRowPerKey(4, "start_time")
                 /\ KeysOf(4, "start_time") = {Instant(log_df[i].ts) : i \in NextSongEvents}

\* a finished run on song records that share a song_id and differ in another
\* column, and on NextSong events of one user that differ in level, with two
\* distinct keys in the artists and the time table
C3_Witness ==
    /\ pc = "done"
    /\ \E i, j \in DOMAIN song_df :
          song_df[i].song_id = song_df[j].song_id /\ song_df[i].artist_id # song_df[j].artist_id
    /\ \E i, j \in NextSongEvents :
          log_df[i].userId = log_df[j].userId /\ log_df[i].level # log_df[j].level
    /\ Cardinality(Rows(2)) = 2
    /\ Cardinality(Rows(4)) = 2

\* C4: when the run is done, every row of the written songplays table has a
\* songplay_id column, and no two rows of the table share a songplay_id.
C4_AsStated ==
    pc = "done" =>
        /\ \A r \in Rows(5) : "songplay_id" \in DOMAIN r /\ Tab(5)[r] = 1
        /\ \A r1, r2 \in Rows(5) : r1.songplay_id = r2.songplay_id => r1 = r2

\* C5: when the run is done, the songplays rows that carry the columns of a log
\* event are as many as the log events with these columns that have page
\* "NextSong" and a matching song record: one row per such event, none for
\* any other event.
C5_AsStated ==
    pc = "done" =>
        \A i \in DOMAIN log_df :
            RowsOf(log_df[i]) =
                Cardinality({k \in NextSongEvents :
                                Matched(log_df[k]) /\ SameColumns(log_df[k], log_df[i])})

\* C6: a run that completes after a run that completed, on the same sources
\* and the same destination, leaves every table as the earlier run left it.
C6_AsStated ==
    (pc = "done" /\ before.pc = "done") => store = before.store

\* the tables written in the current run
InRun == {k \in 1..5 : Has(k) /\ written[Dest(k)] = run}

\* the tables written in the current run are those that precede the position
\* of the run in the order songs, artists, users, time, songplays: none before
\* the first write, all five when the run is done, a proper initial part of
\* the five when a write has failed
C7_WrittenInOrder ==
    /\ pc \in {"create_song_df", "create_log_df"} => InRun = {}
    /\ pc \in DOMAIN WriteStage => InRun = 1..(WriteStage[pc] - 1)
    /\ pc = "done" => InRun = 1..5
    /\ pc = "failed" => \E n \in 0..4 : InRun = 1..n

\* a step changes no table but the one whose write the run is at; after a
\* failure nothing changes until the script is started again
C7_TouchesOwnTableOnly ==
    /\ \A k \in 1..5 :
          (pc \notin DOMAIN WriteStage \/ WriteStage[pc] # k) =>
              /\ (Dest(k) \in DOMAIN store') = (Dest(k) \in DOMAIN store)
              /\ Dest(k) \in DOMAIN store => store'[Dest(k)] = store[Dest(k)]
    /\ pc = "failed" => (pc' = "create_song_df" /\ run' = run + 1 /\ store' = store)

\* the position of the run in the script
Position ==
    [create_song_df |-> 0, create_log_df |-> 1, write_songs |-> 2, write_artists |-> 3,
     write_users |-> 4, write_time |-> 5, write_songplays |-> 6, done |-> 7, failed |-> 7]

\* every step of a run moves the run forward
C7_Advances == run' = run => Position[pc'] > Position[pc]

\* C7: the tables are written in the order songs, artists, users, time,
\* songplays; a failed write ends the run, no later table is written in it and
\* the tables written before keep what the run wrote while the later ones keep
\* what they held; every run ends, failed or done, and a run that is done has
\* written all five tables.
C7_OrderedFailFast ==
    /\ []C7_WrittenInOrder
    /\ [][C7_TouchesOwnTableOnly /\ C7_Advances]_vars
    /\ (pc = "create_song_df") ~> (pc \in {"done", "failed"})

\* a second run that failed at the users write: songs and artists are of the
\* second run, time and songplays still of the first
C7_Witness ==
    /\ pc = "failed"
    /\ run = 2
    /\ InRun = {1, 2}
    /\ Has(4) /\ written[Dest(4)] = 1
    /\ Has(5) /\ written[Dest(5)] = 1

\* C8: every location that holds a written table lies inside the output
\* root, in the directory of one of the five tables; when the run is done each
\* of the five directories holds a table and the five locations differ.
C8_AsStated ==
    /\ \A p \in DOMAIN store : \E k \in 1..5 : InsideRoot(p, output_path, TableDirs[k])
    /\ pc = "done" =>
          /\ \A k \in 1..5 : \E p \in DOMAIN store : InsideRoot(p, output_path, TableDirs[k])
          /\ Cardinality(DOMAIN store) = 5

\* C9: when a record of a source lacks a required field, the read of that
\* source fails: its dataframe is never produced, the run does not get past
\* the read and nothing is written.
C9_AsStated ==
    /\ Violates(song_files, song_schema) =>
          pc \in {"create_song_df", "failed"} /\ song_df = <<>>
    /\ Violates(log_files, log_schema) =>
          pc \in {"create_song_df", "create_log_df", "failed"} /\ log_df = <<>>
    /\ (Violates(song_files, song_schema) \/ Violates(log_files, log_schema)) =>
          store = NoTable

\* C10: when the run is done, every songplays row has its song_id among the
\* keys of songs, its artist_id among the keys of artists, its userId among
\* the keys of users, and its start_time is the key of a time row with the
\* year and the month of the songplays row.
C10_ReferentiallyClosed ==
    pc = "done" =>
        \A r \in Rows(5) :
            /\ \E d \in Rows(1) : d.song_id = r.song_id
            /\ \E d \in Rows(2) : d.artist_id = r.artist_id
            /\ \E d \in Rows(3) : d.userId = r.userId
            /\ \E d \in Rows(4) :
                  d.start_time = r.start_time /\ d.year = r.year /\ d.month = r.month

\* a finished run with songplays rows of two instants in different years
C10_Witness ==
    /\ pc = "done"
    /\ \E r1, r2 \in Rows(5) : r1.year # r2.year /\ r1.song_id # r2.song_id

====
